---- MODULE Spec2Model ----
(***************************************************************************)
(* pbcoretools/cloud_utils.py: splitting a BGZF-compressed BAM file into   *)
(* sub-BAM files at ZMW boundaries with the help of its PacBio index, and  *)
(* recombining a header file with a records file.                          *)
(*                                                                         *)
(* Files are sequences of bytes.  A file handle is a position in a file.   *)
(* The index (.pbi) is the pair of parallel arrays holeNumber and          *)
(* virtualFileOffset.  Exceptions are modelled as the value of err.        *)
(***************************************************************************)
EXTENDS Integers, Sequences, FiniteSets, TLC

VARIABLES
    bam,                \* content of the source BAM file
    pbiExists,          \* whether file_name + ".pbi" exists
    holeNumber,         \* pbi.holeNumber, one entry per record
    virtualFileOffset,  \* pbi.virtualFileOffset, one entry per record
    headerFile,         \* content of bam_header_file (combine_with_header)
    recordsFile,        \* content of bam_chunk_file (combine_with_header)
    handlePos,          \* position of the open source handle bam_in
    pc,                 \* "idle", or the name of the operation that has run
    args,               \* the arguments of the operation that has run
    ret,                \* its return value
    err,                \* the exception it raised, or NoError
    chunkFiles,         \* chunkFiles[i+1] = content of {prefix}.chunk{i}.bam
    tsvFile,            \* the byte-range table, or NoFile
    destFile            \* output_file_name of extract/combine, or NoFile

vars == <<bam, pbiExists, holeNumber, virtualFileOffset, headerFile,
          recordsFile, handlePos, pc, args, ret, err, chunkFiles, tsvFile,
          destFile>>

----------------------------------------------------------------------------
(* Bounds of the model *)

\* most records in an index
MaxRecords == 4
\* largest compressed-block start offset of a record
MaxOffset == 4
\* most bytes in a file of the extract and recombine specifications
MaxLen == 3

\* in-block (low 16 bit) parts of a record's virtual offset
InBlock == {0, 1}
\* group identifiers (ZMW hole numbers)
Zmws == {1, 2}
\* byte values of the small enumerated files
Bytes == {0, 1}

----------------------------------------------------------------------------
(* Values *)

NoError == "none"
NoFile == <<-1>>
NoArgs ==
    [op |-> "none", nchunks |-> 0, pos |-> 0, header_n_bytes |-> 0,
     offset |-> 0, record_n_bytes |-> 0]

Min(a, b) == IF a < b THEN a ELSE b

\* cloud_utils.py:16
BGZF_TERM ==
    <<31, 139, 8, 4, 0, 0, 0, 0, 0, 255, 6, 0, 66, 67, 2, 0, 27, 0, 3, 0,
      0, 0, 0, 0, 0, 0, 0, 0>>

\* chunk_in.read(1024)
BlockSize == 1024

\* file.read(n) with the handle at pos: at most n bytes, fewer at end of
\* file; a negative n reads to end of file
Read(f, pos, n) ==
    IF n < 0 THEN SubSeq(f, pos + 1, Len(f))
    ELSE SubSeq(f, pos + 1, Min(pos + n, Len(f)))

\* a plausible slip: the shift is forgotten
Shr16_none(x) == x

\* x >> 16
Shr16(x) == x \div 65536

\* math.ceil(a / b) for positive b
CeilDiv(a, b) == (a + b - 1) \div b

----------------------------------------------------------------------------
(* get_zmw_bgzf_borders *)

\* byteOffsets = pbi.virtualFileOffset >> 16
byteOffsets(vfo) == [i \in 1..Len(vfo) |-> Shr16(vfo[i])]

\* a plausible slip: either change alone makes a border
isBorder_or(hn, bo, i) ==
    i = 1 \/ (hn[i] # hn[i-1] \/ bo[i] # bo[i-1])

\* a plausible slip: every new block makes a border, whatever the ZMW
isBorder_blockOnly(hn, bo, i) ==
    i = 1 \/ bo[i] # bo[i-1]

\* a plausible slip: every change of ZMW makes a border, whatever the block
isBorder_zmwOnly(hn, bo, i) ==
    i = 1 \/ hn[i] # hn[i-1]

\* the test of line 57, for the record at (1-based) position i:
\* i == 0 or (zmw != pbi.holeNumber[i-1] and offset != byteOffsets[i-1])
isBorder(hn, bo, i) ==
    i = 1 \/ (hn[i] # hn[i-1] /\ bo[i] # bo[i-1])

RECURSIVE bordersLoop(_, _, _, _)
\* the for loop of lines 56-58; offsets.append((i, zmw, offset)) with the
\* record index i counted from 0 as enumerate does
bordersLoop(hn, bo, i, offsets) ==
    IF i > Min(Len(hn), Len(bo)) THEN offsets
    ELSE bordersLoop(hn, bo, i + 1,
                     IF isBorder(hn, bo, i)
                     THEN Append(offsets, <<i - 1, hn[i], bo[i]>>)
                     ELSE offsets)

get_zmw_bgzf_borders(hn, vfo) == bordersLoop(hn, byteOffsets(vfo), 1, <<>>)

----------------------------------------------------------------------------
(* get_bam_offsets *)

Raise(e) == [err |-> e, value |-> <<>>]
Return(v) == [err |-> NoError, value |-> v]

\* a plausible slip: the assertion lets 0 through and rejects nothing above
nchunksOk_positive(n) == n > 1

\* assert nchunks >= 1
nchunksOk(n) == n >= 1

\* a plausible slip: integer (floor) division
per_chunk_floor(nOffsets, n) == nOffsets \div n

\* per_chunk = math.ceil(len(offsets) / nchunks)
per_chunk(nOffsets, n) == CeilDiv(nOffsets, n)

RECURSIVE chunkLoop(_, _, _, _, _)
\* the while loop of lines 74-80
chunkLoop(offsets, n, per, i, chunk_offsets) ==
    IF ~(i < n) THEN chunk_offsets
    ELSE LET k == i * per IN
         IF k >= Len(offsets) THEN chunk_offsets
         ELSE chunkLoop(offsets, n, per, i + 1,
                        Append(chunk_offsets, offsets[k + 1][3]))

\* get_bam_offsets(file_name, nchunks), reading the index of the state.
\* pbi.virtualFileOffset[0] raises IndexError on an index without records.
get_bam_offsets(exists, hn, vfo, nchunks) ==
    IF ~nchunksOk(nchunks) THEN Raise("AssertionError")
    ELSE IF ~exists THEN Raise("IOError")
    ELSE IF Len(vfo) = 0 THEN Raise("IndexError")
    ELSE LET offsets == get_zmw_bgzf_borders(hn, vfo)
             n == Min(nchunks, Len(offsets))
         IN  Return(chunkLoop(offsets, n, per_chunk(Len(offsets), n), 0, <<>>))

----------------------------------------------------------------------------
(* write_bam_byte_ranges *)

\* b_ends = [x - 1 for x in offsets[1:]] + [bam_size]
b_ends(offsets, bam_size) ==
    [i \in 1..Len(offsets) |->
        IF i < Len(offsets) THEN offsets[i + 1] - 1 ELSE bam_size]

\* the rows "%d\t%d" % (s, e) for s, e in zip(offsets, b_ends), each row
\* kept as the pair of numbers it prints
ranges(offsets, bam_size) ==
    [i \in 1..Len(offsets) |-> <<offsets[i], b_ends(offsets, bam_size)[i]>>]

\* the table file: the line "start\tend" and the rows
TsvTable(rows) == [exists |-> TRUE, header |-> <<"start", "end">>, rows |-> rows]

\* no table file
NoTsv == [exists |-> FALSE, header |-> <<>>, rows |-> <<>>]

\* a plausible slip: the table is opened for writing before the offsets are
\* computed, so that a failing call leaves an empty table behind
write_bam_byte_ranges_openFirst(f, exists, hn, vfo, nchunks, tsv) ==
    LET bam_size == Len(f)
        r == get_bam_offsets(exists, hn, vfo, nchunks)
    IN  IF r.err # NoError
        THEN [err |-> r.err,
              tsv |-> [exists |-> TRUE, header |-> <<>>, rows |-> <<>>]]
        ELSE [err |-> NoError, tsv |-> TsvTable(ranges(r.value, bam_size))]

\* write_bam_byte_ranges(file_name, nchunks): the exception raised and the
\* table file afterwards.  get_bam_offsets runs before the table is opened.
write_bam_byte_ranges(f, exists, hn, vfo, nchunks, tsv) ==
    LET bam_size == Len(f)
        r == get_bam_offsets(exists, hn, vfo, nchunks)
    IN  IF r.err # NoError THEN [err |-> r.err, tsv |-> tsv]
        ELSE [err |-> NoError, tsv |-> TsvTable(ranges(r.value, bam_size))]

----------------------------------------------------------------------------
(* extract_bam_chunk and split_bam *)

\* a plausible slip: the header is read without seeking to 0 first
extractHeader_noSeek(f, pos, header_n_bytes) == Read(f, pos, header_n_bytes)

\* bam_in.seek(0); header_bytes = bam_in.read(header_n_bytes)
extractHeader(f, pos, header_n_bytes) == Read(f, 0, header_n_bytes)

\* _write_bam_chunk: header, bam_in.seek(offset), read(record_n_bytes), term
write_bam_chunk(f, header_bytes, offset, record_n_bytes) ==
    header_bytes \o Read(f, offset, record_n_bytes) \o BGZF_TERM

\* extract_bam_chunk: the content of the file opened "wb" (truncated), and
\* the position the source handle is left at
extract_bam_chunk(f, pos, header_n_bytes, offset, record_n_bytes) ==
    [out |-> write_bam_chunk(f, extractHeader(f, pos, header_n_bytes),
                             offset, record_n_bytes),
     pos |-> offset + Len(Read(f, offset, record_n_bytes))]

\* a plausible slip: one byte too many, so that chunks overlap
record_n_bytes_overlap(offsets, i, bam_size) ==
    IF i < Len(offsets) THEN offsets[i + 1] - offsets[i] + 1
    ELSE bam_size - offsets[i]

\* lines 105-108, for the (1-based) i-th offset
record_n_bytes(offsets, i, bam_size) ==
    IF i < Len(offsets) THEN offsets[i + 1] - offsets[i]
    ELSE bam_size - offsets[i]

RECURSIVE splitLoop(_, _, _, _, _)
\* the for loop of lines 104-112 over one handle bam_in opened at position
\* 0; the result is the sequence of chunk files written
splitLoop(f, pos, offsets, i, written) ==
    IF i > Len(offsets) THEN written
    ELSE LET r == extract_bam_chunk(f, pos, offsets[1], offsets[i],
                                    record_n_bytes(offsets, i, Len(f)))
         IN  splitLoop(f, r.pos, offsets, i + 1, Append(written, r.out))

\* split_bam(file_name, nchunks): the exception raised, the value returned
\* and the chunk files afterwards (files of an earlier run that are not
\* written again stay).  get_bam_offsets runs before any file is opened.
split_bam(f, exists, hn, vfo, nchunks, chunks) ==
    LET r == get_bam_offsets(exists, hn, vfo, nchunks) IN
    IF r.err # NoError THEN [err |-> r.err, ret |-> 0, chunks |-> chunks]
    ELSE IF r.value = <<>> THEN [err |-> "IndexError", ret |-> 0, chunks |-> chunks]
    ELSE LET written == splitLoop(f, 0, r.value, 1, <<>>) IN
         [err |-> NoError, ret |-> Len(r.value),
          chunks |-> written \o SubSeq(chunks, Len(written) + 1, Len(chunks))]

----------------------------------------------------------------------------
(* combine_with_header *)

\* a plausible slip: the block is read again from the start of the file
nextBlock_rewind(f, pos) == Read(f, 0, BlockSize)

\* _fread: chunk_in.read(1024) with the handle at pos
nextBlock(f, pos) == Read(f, pos, BlockSize)

RECURSIVE copyBlocks(_, _, _)
\* for chunk in iter(_fread, b''): bam_out.write(chunk)
copyBlocks(f, pos, out) ==
    LET chunk == nextBlock(f, pos) IN
    IF chunk = <<>> THEN out
    ELSE copyBlocks(f, pos + Len(chunk), out \o chunk)

\* a plausible slip: one read(1024) instead of the loop over the blocks
combine_with_header_oneBlock(header, records) ==
    Read(header, 0, -1) \o nextBlock(records, 0) \o BGZF_TERM

\* the content of output_file_name, opened "wb": header_in.read(), the
\* blocks of the records file, BGZF_TERM
combine_with_header(header, records) ==
    copyBlocks(records, 0, Read(header, 0, -1)) \o BGZF_TERM

----------------------------------------------------------------------------
(* Inputs *)

RECURSIVE SortedSeq(_)
\* the elements of a finite set of numbers in increasing order
SortedSeq(S) ==
    IF S = {} THEN <<>>
    ELSE LET m == CHOOSE x \in S : \A y \in S : x <= y
         IN  <<m>> \o SortedSeq(S \ {m})

\* virtual offsets: block start in the high bits, in-block offset in the
\* low 16 bits.  Every record's block starts after a non-empty header.
VirtualOffsets == {b * 65536 + u : b \in 1..MaxOffset, u \in InBlock}

\* the virtualFileOffset arrays of an index: records in physical order, so
\* strictly increasing virtual offsets; possibly no record at all
OffsetArrays ==
    {SortedSeq(S) : S \in {T \in SUBSET VirtualOffsets : Cardinality(T) <= MaxRecords}}

\* a source file of the given length whose bytes tell their position
PositionCoded(len) == [i \in 1..len |-> (i - 1) % 251]

\* every file of at most MaxLen bytes over Bytes
SmallFiles == UNION {[1..len -> Bytes] : len \in 0..MaxLen}

\* records files around the copy block size
BlockFiles ==
    {PositionCoded(len) :
        len \in {BlockSize - 1, BlockSize, BlockSize + 1,
                 2 * BlockSize, 2 * BlockSize + 1}}

\* a file left by an earlier run
Stale == <<9, 9>>

\* requested chunk counts, 0 being invalid
NChunks == 0..(MaxRecords + 1)

InitOutputs ==
    /\ pc = "idle"
    /\ args = NoArgs
    /\ ret = <<>>
    /\ err = NoError

\* a BAM file with its index, or with the index missing
InitIndexed ==
    /\ pbiExists \in BOOLEAN
    /\ virtualFileOffset \in (IF pbiExists THEN OffsetArrays ELSE {<<>>})
    /\ holeNumber \in [1..Len(virtualFileOffset) -> Zmws]
    /\ LET last == IF virtualFileOffset = <<>> THEN 0
                   ELSE virtualFileOffset[Len(virtualFileOffset)] \div 65536
       IN  \E len \in (last + 1)..(MaxOffset + 2) : bam = PositionCoded(len)
    /\ headerFile = <<>>
    /\ recordsFile = <<>>
    /\ handlePos = 0
    /\ destFile = NoFile
    /\ InitOutputs

\* no output file exists yet
InitSplit ==
    /\ InitIndexed
    /\ tsvFile = NoTsv
    /\ chunkFiles = <<>>

\* possibly a table and a first chunk file of an earlier run exist
InitRerun ==
    /\ InitIndexed
    /\ \E stale \in BOOLEAN :
          /\ tsvFile = (IF stale THEN TsvTable(<<Stale>>) ELSE NoTsv)
          /\ chunkFiles = (IF stale THEN <<Stale>> ELSE <<>>)

\* a source file and a handle on it at any position; possibly an output of
\* an earlier run
InitExtract ==
    /\ bam \in SmallFiles
    /\ handlePos \in 0..Len(bam)
    /\ destFile \in {NoFile, Stale}
    /\ pbiExists = FALSE
    /\ virtualFileOffset = <<>>
    /\ holeNumber = <<>>
    /\ headerFile = <<>>
    /\ recordsFile = <<>>
    /\ tsvFile = NoTsv
    /\ chunkFiles = <<>>
    /\ InitOutputs

\* a header file and a records file; possibly an output of an earlier run
InitCombine ==
    /\ headerFile \in SmallFiles
    /\ recordsFile \in SmallFiles \cup BlockFiles
    /\ destFile \in {NoFile, Stale}
    /\ bam = <<>>
    /\ handlePos = 0
    /\ pbiExists = FALSE
    /\ virtualFileOffset = <<>>
    /\ holeNumber = <<>>
    /\ tsvFile = NoTsv
    /\ chunkFiles = <<>>
    /\ InitOutputs

----------------------------------------------------------------------------
(* Operations *)

Inputs == <<bam, pbiExists, holeNumber, virtualFileOffset, headerFile,
            recordsFile>>

\* get_zmw_bgzf_borders(pbi) on the loaded index
GetZmwBgzfBorders ==
    /\ pc = "idle"
    /\ pbiExists
    /\ pc' = "get_zmw_bgzf_borders"
    /\ args' = [NoArgs EXCEPT !.op = "get_zmw_bgzf_borders"]
    /\ ret' = get_zmw_bgzf_borders(holeNumber, virtualFileOffset)
    /\ err' = NoError
    /\ UNCHANGED <<Inputs, handlePos, chunkFiles, tsvFile, destFile>>

\* get_bam_offsets(file_name, nchunks)
GetBamOffsets ==
    /\ pc = "idle"
    /\ \E n \in NChunks :
          LET r == get_bam_offsets(pbiExists, holeNumber, virtualFileOffset, n)
          IN  /\ args' = [NoArgs EXCEPT !.op = "get_bam_offsets", !.nchunks = n]
              /\ ret' = r.value
              /\ err' = r.err
    /\ pc' = "get_bam_offsets"
    /\ UNCHANGED <<Inputs, handlePos, chunkFiles, tsvFile, destFile>>

\* write_bam_byte_ranges(file_name, nchunks)
WriteBamByteRanges ==
    /\ pc = "idle"
    /\ \E n \in NChunks :
          LET r == write_bam_byte_ranges(bam, pbiExists, holeNumber,
                                         virtualFileOffset, n, tsvFile)
          IN  /\ args' = [NoArgs EXCEPT !.op = "write_bam_byte_ranges",
                                        !.nchunks = n]
              /\ tsvFile' = r.tsv
              /\ err' = r.err
    /\ ret' = <<>>
    /\ pc' = "write_bam_byte_ranges"
    /\ UNCHANGED <<Inputs, handlePos, chunkFiles, destFile>>

\* split_bam(file_name, nchunks)
SplitBam ==
    /\ pc = "idle"
    /\ \E n \in NChunks :
          LET r == split_bam(bam, pbiExists, holeNumber, virtualFileOffset,
                             n, chunkFiles)
          IN  /\ args' = [NoArgs EXCEPT !.op = "split_bam", !.nchunks = n]
              /\ chunkFiles' = r.chunks
              /\ ret' = r.ret
              /\ err' = r.err
    /\ pc' = "split_bam"
    /\ UNCHANGED <<Inputs, handlePos, tsvFile, destFile>>

\* extract_bam_chunk(bam_in, output_file_name, header_n_bytes, offset,
\* record_n_bytes) on the open handle bam_in
ExtractBamChunk ==
    /\ pc = "idle"
    /\ \E h \in 0..(Len(bam) + 1), o \in 0..(Len(bam) + 1),
          n \in 0..(Len(bam) + 1) :
          LET r == extract_bam_chunk(bam, handlePos, h, o, n)
          IN  /\ args' = [NoArgs EXCEPT !.op = "extract_bam_chunk",
                                        !.pos = handlePos,
                                        !.header_n_bytes = h, !.offset = o,
                                        !.record_n_bytes = n]
              /\ destFile' = r.out
              /\ handlePos' = r.pos
    /\ ret' = <<>>
    /\ err' = NoError
    /\ pc' = "extract_bam_chunk"
    /\ UNCHANGED <<Inputs, chunkFiles, tsvFile>>

\* combine_with_header(bam_header_file, bam_chunk_file, output_file_name)
CombineWithHeader ==
    /\ pc = "idle"
    /\ destFile' = combine_with_header(headerFile, recordsFile)
    /\ args' = [NoArgs EXCEPT !.op = "combine_with_header"]
    /\ ret' = <<>>
    /\ err' = NoError
    /\ pc' = "combine_with_header"
    /\ UNCHANGED <<Inputs, handlePos, chunkFiles, tsvFile>>

Next ==
    \/ GetZmwBgzfBorders
    \/ GetBamOffsets
    \/ WriteBamByteRanges
    \/ SplitBam

NextExtract == ExtractBamChunk

NextCombine == CombineWithHeader

\* splitting a BAM file with its index
Spec == InitSplit /\ [][Next]_vars

\* splitting where an earlier run may have left its outputs
SpecRerun == InitRerun /\ [][Next]_vars

\* extracting one chunk
SpecExtract == InitExtract /\ [][NextExtract]_vars

\* recombining a header and a records file
SpecCombine == InitCombine /\ [][NextCombine]_vars

----------------------------------------------------------------------------
(* Vocabulary of the properties, stated on the index itself *)

\* the compressed-block start of the record at (1-based) position i
BlockOffsetOf(i) == virtualFileOffset[i] \div 65536

\* the record at position i opens a new group in a new block
GroupAndBlockChange(i) ==
    /\ i > 1
    /\ holeNumber[i] # holeNumber[i-1]
    /\ BlockOffsetOf(i) # BlockOffsetOf(i-1)

\* positions of the records at which a boundary is due
BoundaryPositions ==
    {i \in 1..Len(holeNumber) : i = 1 \/ GroupAndBlockChange(i)}

NumBoundaries == Cardinality(BoundaryPositions)

\* the last 28 bytes of a file
Tail28(f) == SubSeq(f, Len(f) - 27, Len(f))

\* the literal terminator block
Terminator ==
    <<31, 139, 8, 4, 0, 0, 0, 0, 0, 255, 6, 0, 66, 67, 2, 0, 27, 0, 3, 0,
      0, 0, 0, 0, 0, 0, 0, 0>>

----------------------------------------------------------------------------
(* Properties *)

\* C1: get_zmw_bgzf_borders emits a boundary for record index i exactly
\* when i is 0 or both the group and the block offset differ from those of
\* record i-1; the boundary is (i, group_id[i], block_offset[i]); the
\* boundaries come in record order.
C1_BordersIff ==
    pc = "get_zmw_bgzf_borders" =>
        /\ \A i \in 1..Len(holeNumber) :
              (\E j \in 1..Len(ret) : ret[j][1] = i - 1)
                  <=> (i = 1 \/ GroupAndBlockChange(i))
        /\ \A j \in 1..Len(ret) :
              /\ ret[j][1] \in 0..(Len(holeNumber) - 1)
              /\ ret[j] = <<ret[j][1], holeNumber[ret[j][1] + 1],
                            BlockOffsetOf(ret[j][1] + 1)>>
        /\ \A j \in 1..Len(ret), k \in 1..Len(ret) :
              j < k => ret[j][1] < ret[k][1]

\* C1: the group changes inside a block, and a later boundary is emitted
C1_Witness ==
    /\ pc = "get_zmw_bgzf_borders"
    /\ Len(ret) >= 2
    /\ \E i \in 2..Len(holeNumber) :
          /\ holeNumber[i] # holeNumber[i-1]
          /\ BlockOffsetOf(i) = BlockOffsetOf(i-1)
          /\ \A j \in 1..Len(ret) : ret[j][1] # i - 1

\* the call had a valid chunk count and an index with at least one record
ValidPlannerInput == args.nchunks >= 1 /\ pbiExists /\ NumBoundaries >= 1

\* C2 as stated: get_bam_offsets returns exactly min(n, b) offsets, and
\* split_bam writes and returns exactly min(n, b) chunks.
C2_ExactlyMinChunks ==
    /\ (pc = "get_bam_offsets" /\ ValidPlannerInput) =>
          /\ err = NoError
          /\ Len(ret) = Min(args.nchunks, NumBoundaries)
    /\ (pc = "split_bam" /\ ValidPlannerInput) =>
          /\ err = NoError
          /\ ret = Min(args.nchunks, NumBoundaries)
          /\ Len(chunkFiles) = Min(args.nchunks, NumBoundaries)

\* the smallest p with p * d >= b, for b >= 1 and d >= 1
SmallestMultiplier(b, d) ==
    CHOOSE p \in 1..b : p * d >= b /\ (p - 1) * d < b

\* the number of multiples of the stride below b, the stride being the
\* smallest p with p * min(n, b) >= b
PlannedCount(n) ==
    LET b == NumBoundaries
        stride == SmallestMultiplier(b, IF n < b THEN n ELSE b)
    IN  SmallestMultiplier(b, stride)

\* C2 amended: the number of offsets (and of chunks written and returned
\* by split_bam) is ceil(b / ceil(b / min(n, b))): never more than
\* min(n, b), and exactly b whenever n >= b.
C2_ChunkCount ==
    /\ (pc = "get_bam_offsets" /\ ValidPlannerInput) =>
          LET b == NumBoundaries IN
          /\ err = NoError
          /\ Len(ret) = PlannedCount(args.nchunks)
          /\ Len(ret) <= args.nchunks
          /\ Len(ret) <= b
          /\ args.nchunks >= b => Len(ret) = b
    /\ (pc = "split_bam" /\ ValidPlannerInput) =>
          /\ err = NoError
          /\ ret = PlannedCount(args.nchunks)
          /\ Len(chunkFiles) = ret

\* C2: three chunks are asked for, four boundaries exist, two are planned
C2_Witness ==
    /\ pc = "split_bam"
    /\ NumBoundaries = 4
    /\ args.nchunks = 3
    /\ err = NoError
    /\ ret = 2
    /\ Len(chunkFiles) = 2

\* the offsets split_bam works with
PlannedOffsets ==
    get_bam_offsets(pbiExists, holeNumber, virtualFileOffset, args.nchunks).value

\* a chunk file without its copied header and its trailing terminator
BodyOf(f, header_len) == SubSeq(f, header_len + 1, Len(f) - 28)

RECURSIVE BodiesFrom(_, _)
\* the bodies of the chunk files from the i-th on, concatenated
BodiesFrom(i, header_len) ==
    IF i > Len(chunkFiles) THEN <<>>
    ELSE BodyOf(chunkFiles[i], header_len) \o BodiesFrom(i + 1, header_len)

\* C3: the bodies of the chunk files written by split_bam, concatenated in
\* chunk order, are the source bytes from the header length to end of file;
\* chunk i holds [offsets[i], offsets[i+1]), the last one to end of file.
C3_BodiesCoverSource ==
    (pc = "split_bam" /\ err = NoError) =>
        LET h == BlockOffsetOf(1)
            o == PlannedOffsets
        IN  /\ Len(chunkFiles) = Len(o)
            /\ BodiesFrom(1, h) = SubSeq(bam, h + 1, Len(bam))
            /\ \A i \in 1..Len(chunkFiles) :
                  /\ Len(chunkFiles[i]) >= h + 28
                  /\ BodyOf(chunkFiles[i], h) =
                        SubSeq(bam, o[i] + 1,
                               IF i < Len(o) THEN o[i + 1] ELSE Len(bam))

\* C3: split_bam has written three chunks, none of them empty
C3_Witness ==
    /\ pc = "split_bam"
    /\ err = NoError
    /\ Len(chunkFiles) = 3
    /\ \A i \in 1..3 : BodyOf(chunkFiles[i], BlockOffsetOf(1)) # <<>>

\* C4: for n >= 1 and a non-empty index in physical order the offsets
\* returned by get_bam_offsets are at most n, strictly increasing, and start
\* with the header length (the block offset of the first record).
C4_OffsetsIncreasing ==
    (pc = "get_bam_offsets" /\ args.nchunks >= 1 /\ pbiExists
        /\ Len(virtualFileOffset) >= 1) =>
        /\ err = NoError
        /\ Len(ret) >= 1
        /\ Len(ret) <= args.nchunks
        /\ \A j \in 1..Len(ret), k \in 1..Len(ret) : j < k => ret[j] < ret[k]
        /\ ret[1] = BlockOffsetOf(1)

\* C4: three offsets are returned for an index whose first record does not
\* start its block
C4_Witness ==
    /\ pc = "get_bam_offsets"
    /\ err = NoError
    /\ Len(ret) = 3
    /\ virtualFileOffset[1] % 65536 # 0

\* C5: the file written by extract_bam_chunk ends with the terminator
\* block, and is the first header_n_bytes bytes of the source, then the
\* record_n_bytes bytes of the source from offset on, then the terminator,
\* wherever the source handle stood before the call.
C5_ExtractContent ==
    pc = "extract_bam_chunk" =>
        /\ Len(destFile) >= 28
        /\ Tail28(destFile) = Terminator
        /\ (/\ args.header_n_bytes <= Len(bam)
            /\ args.offset + args.record_n_bytes <= Len(bam)) =>
              destFile =
                  SubSeq(bam, 1, args.header_n_bytes)
                  \o SubSeq(bam, args.offset + 1,
                            args.offset + args.record_n_bytes)
                  \o Terminator

\* C5: a chunk was extracted through a handle that stood past the header
C5_Witness ==
    /\ pc = "extract_bam_chunk"
    /\ args.pos > 0
    /\ args.header_n_bytes = 1
    /\ args.offset = 1
    /\ args.record_n_bytes = 2
    /\ Len(bam) = 3
    /\ bam[1] # bam[2]
    /\ Len(destFile) = 31

\* C6 as stated: every row of the table is an inclusive range of byte
\* positions of the source file, row i being the bytes of chunk i; the rows
\* are contiguous and cover the bytes from the header length to the last
\* byte of the file.
C6_RowsAreInclusiveRanges ==
    (pc = "write_bam_byte_ranges" /\ err = NoError) =>
        LET rows == tsvFile.rows
            o == PlannedOffsets
        IN  /\ tsvFile.exists
            /\ Len(rows) = Len(o)
            /\ rows[1][1] = BlockOffsetOf(1)
            /\ \A i \in 1..Len(rows) :
                  /\ rows[i][1] = o[i]
                  /\ rows[i][1] <= rows[i][2]
                  /\ rows[i][2] \in 0..(Len(bam) - 1)
                  /\ i < Len(rows) => rows[i + 1][1] = rows[i][2] + 1
            /\ rows[Len(rows)][2] = Len(bam) - 1

\* C7: combine_with_header writes the header file, the records file and
\* the terminator, once each.
C7_CombineIsConcat ==
    pc = "combine_with_header" =>
        destFile = headerFile \o recordsFile \o Terminator

\* C7: a records file of two full blocks and one more byte was combined
C7_Witness ==
    /\ pc = "combine_with_header"
    /\ Len(recordsFile) = 2 * 1024 + 1
    /\ Len(headerFile) = 2
    /\ Len(destFile) = 2 + 2049 + 28

\* C8: get_bam_offsets, called directly or by write_bam_byte_ranges or
\* split_bam, raises the assertion error when n < 1 and the missing-index
\* IOError when n >= 1 and the index file does not exist (the assertion
\* comes first when both are the case); in either case no chunk file and no
\* table file is created or overwritten.
C8_FailsBeforeWriting ==
    [][(pc = "idle" /\ pc' \in {"get_bam_offsets", "write_bam_byte_ranges",
                                "split_bam"}) =>
         /\ args'.nchunks < 1 => err' = "AssertionError"
         /\ (args'.nchunks >= 1 /\ ~pbiExists) => err' = "IOError"
         /\ (args'.nchunks < 1 \/ ~pbiExists) =>
               /\ err' # NoError
               /\ chunkFiles' = chunkFiles
               /\ tsvFile' = tsvFile]_vars

\* C8: split_bam has failed for want of the index and the chunk file of an
\* earlier run is still as it was
C8_Witness ==
    /\ pc = "split_bam"
    /\ args.nchunks >= 1
    /\ ~pbiExists
    /\ err = "IOError"
    /\ chunkFiles = <<Stale>>
    /\ tsvFile = TsvTable(<<Stale>>)

\* C9 as stated: split_bam with nchunks = 1 on any source file with its
\* index, whatever the number of records, returns 1 and leaves exactly one
\* chunk file: the header bytes, the whole body and the terminator.
C9_OneChunkIsWholeFile ==
    (pc = "split_bam" /\ args.nchunks = 1 /\ pbiExists) =>
        /\ err = NoError
        /\ ret = 1
        /\ Len(chunkFiles) = 1
        /\ \E h \in 0..Len(bam) :
              /\ virtualFileOffset # <<>> => h = BlockOffsetOf(1)
              /\ chunkFiles[1] =
                    SubSeq(bam, 1, h) \o SubSeq(bam, h + 1, Len(bam))
                    \o Terminator

\* the number of the chunk whose byte range holds the block of record i
ChunkOf(offsets, i) ==
    Cardinality({j \in 1..Len(offsets) : offsets[j] <= BlockOffsetOf(i)})

\* C10: every chunk start offset returned by get_bam_offsets is the block
\* offset of a record that opens a new group in a new block (or of the first
\* record), so two consecutive records of one group are never in different
\* chunks; and every chunk written by split_bam begins with the source byte
\* at such an offset.
C10_ChunksStartAtBoundaries ==
    /\ (pc = "get_bam_offsets" /\ err = NoError) =>
          /\ \A j \in 1..Len(ret) :
                \E i \in BoundaryPositions : ret[j] = BlockOffsetOf(i)
          /\ \A i \in 2..Len(holeNumber) :
                holeNumber[i] = holeNumber[i-1]
                    => ChunkOf(ret, i) = ChunkOf(ret, i - 1)
    /\ (pc = "split_bam" /\ err = NoError) =>
          \A j \in 1..Len(chunkFiles) :
              \E i \in BoundaryPositions :
                  /\ BodyOf(chunkFiles[j], BlockOffsetOf(1)) # <<>>
                  /\ BodyOf(chunkFiles[j], BlockOffsetOf(1))[1]
                        = BlockOffsetOf(i) % 251
                  /\ bam[BlockOffsetOf(i) + 1] = BlockOffsetOf(i) % 251

\* C10: two chunks were planned for an index in which one group runs over
\* two blocks and another group starts inside a block
C10_Witness ==
    /\ pc = "get_bam_offsets"
    /\ err = NoError
    /\ Len(ret) = 2
    /\ \E i \in 2..Len(holeNumber) :
          /\ holeNumber[i] = holeNumber[i-1]
          /\ BlockOffsetOf(i) # BlockOffsetOf(i-1)
    /\ \E i \in 2..Len(holeNumber) :
          /\ holeNumber[i] # holeNumber[i-1]
          /\ BlockOffsetOf(i) = BlockOffsetOf(i-1)

\* C11: for a non-empty index in physical order the boundaries returned by
\* get_zmw_bgzf_borders are strictly increasing in record index and in block
\* offset, and the first one is the boundary at record index 0.
C11_BordersStrictlyIncreasing ==
    (pc = "get_zmw_bgzf_borders" /\ Len(holeNumber) >= 1) =>
        /\ Len(ret) >= 1
        /\ ret[1] = <<0, holeNumber[1], BlockOffsetOf(1)>>
        /\ \A j \in 1..(Len(ret) - 1) :
              /\ ret[j][1] < ret[j + 1][1]
              /\ ret[j][3] < ret[j + 1][3]

\* C11: three boundaries were found in an index in which a group also
\* changes inside a block
C11_Witness ==
    /\ pc = "get_zmw_bgzf_borders"
    /\ Len(ret) = 3
    /\ ret[1][1] = 0
    /\ \E i \in 2..Len(holeNumber) :
          /\ holeNumber[i] # holeNumber[i-1]
          /\ BlockOffsetOf(i) = BlockOffsetOf(i-1)

====
